---- MODULE Spec2Model ----
(***************************************************************************)
(* State-machine model of DmpBbo's black-box optimization loop             *)
(* (src/src/bbo/runOptimization.cpp): runOptimization and saveToDirectory. *)
(*                                                                         *)
(* Distributions are one-dimensional Gaussians [mean, covar]; matrices are *)
(* sequences of rows.  The file system is a record [dirs, files]: dirs is  *)
(* the set of existing directories, files maps each existing file path to  *)
(* its contents.                                                           *)
(***************************************************************************)
EXTENDS Integers, Sequences, FiniteSets, TLC

VARIABLES
  \* ---- parameters of runOptimization (fixed by the caller)
  n_updates, n_samples_per_update, save_directory, overwrite, only_learning_curve,
  \* ---- locals of runOptimization
  pc, i_update, i_sample, cost_eval, samples, costs, weights,
  distribution, distribution_new, learning_curve,
  \* ---- environment
  fs,          \* the file system
  io_bad,      \* paths that cannot be created / opened for writing
  ow_default,  \* default argument of saveToDirectory's overwrite parameter
  ndebug,      \* the build compiles assert out (NDEBUG)
  given,       \* which optional fields a direct caller of saveToDirectory passes
  cerr,        \* number of messages written to std::cerr
  \* ---- history of the calls made to the collaborators (for the properties)
  n_evaluate,  \* calls of cost_function->evaluate so far
  probe,       \* the probe call of the current iteration
  trials,      \* the trial evaluations of the current iteration, in order
  draws,       \* calls of generateSamples in the current iteration
  upd_in,      \* inputs of the updater call of the current iteration
  upd_out,     \* distribution the updater wrote at its latest call, or None
  save_call,   \* the latest saveToDirectory call and what it returned
  save_prev,   \* the saveToDirectory call before it
  n_save,      \* calls of saveToDirectory so far
  lc_writes,   \* number of learning_curve.txt write attempts of the run
  \* ---- TaskSolverDmp::performRollouts
  dim_orig,        \* dmp_->dim_orig()
  roll_samples,    \* the argument samples: one matrix per distribution
  n_samples,       \* the local n_samples
  roll_k,          \* the loop index k
  dmp_parameters,  \* the model parameters the Dmp holds, or None
  cost_vars,       \* the argument cost_vars
  set_calls        \* the arguments of the setModelParametersVectors calls, in order

run_vars == <<n_updates, n_samples_per_update, save_directory, overwrite,
              only_learning_curve, pc, i_update, i_sample, cost_eval, samples,
              costs, weights, distribution, distribution_new, learning_curve>>
env_vars == <<fs, io_bad, ow_default, ndebug, given, cerr>>
hist_vars == <<n_evaluate, probe, trials, draws, upd_in, upd_out, save_call, save_prev,
               n_save, lc_writes>>
run_vars_but_pc == <<n_updates, n_samples_per_update, save_directory, overwrite,
                     only_learning_curve, i_update, i_sample, cost_eval, samples,
                     costs, weights, distribution, distribution_new, learning_curve>>
roll_vars == <<dim_orig, roll_samples, n_samples, roll_k, dmp_parameters, cost_vars,
               set_calls>>
vars == <<run_vars, env_vars, hist_vars, roll_vars>>

----------------------------------------------------------------------------
(* Bounds of the model *)

MaxUpdates == 2
MaxSamples == 2
MaxParallel == 2

(* The int type of the build: 32 bits, two's complement *)
INT_MAX == 2147483647
INT_MIN == -INT_MAX - 1

(* Values.  A vector or matrix is a sequence of rows and a row a sequence of
   numbers; an optional or possibly uninitialized value is <<>> (nothing) or
   <<v>>. *)
\* the distributions an updater may produce, and the caller's initial one
Dists == {[mean |-> 0, covar |-> 4], [mean |-> 1, covar |-> 9]}
InitialDistribution == [mean |-> 1, covar |-> 16]
\* what an earlier run left on disk
OldDist == [mean |-> 7, covar |-> 49]
Noise == {0, 1}
Directories == {"", "out"}

----------------------------------------------------------------------------
(* Names of directories and files: strings *)

Digit == <<"0", "1", "2", "3", "4", "5", "6", "7", "8", "9">>

RECURSIVE Digits(_)
Digits(n) == IF n < 10 THEN Digit[n + 1] ELSE Digits(n \div 10) \o Digit[(n % 10) + 1]

RECURSIVE Zeros(_)
Zeros(k) == IF k <= 0 THEN "" ELSE "0" \o Zeros(k - 1)

\* stream << setw(w) << setfill('0') << n, for n >= 0
SetwFill0(w, n) == Zeros(w - Len(Digits(n))) \o Digits(n)

\* directory << "/update" << setw(5) << setfill('0') << i_update
DirUpdate(directory, i) == directory \o "/update" \o SetwFill0(5, i)

\* "/distribution_" << setw(3) << setfill('0') << dd, plus "_mean.txt" or "_covar.txt"
DistFileName(prefix, dd, suffix) == prefix \o SetwFill0(3, dd) \o suffix

\* directory + "/" + filename
FilePath(dir, filename) == dir \o "/" \o filename

----------------------------------------------------------------------------
(* File system *)

EmptyFs == [dirs |-> {}, files |-> <<>>]

Exists(f, path) == path \in f.dirs \/ path \in DOMAIN f.files

\* boost::filesystem::create_directories as its callers use it: TRUE when the
\* directory could be made, FALSE when it could not.  (Its callers make the
\* parent first, so the parent exists whenever a subdirectory is made.)
CreateDirectories(f, bad, dir) ==
  IF dir = "" \/ dir \in bad
    THEN [fs |-> f, ok |-> FALSE]
    ELSE [fs |-> [f EXCEPT !.dirs = @ \cup {dir}], ok |-> TRUE]

\* saveMatrix(filename, matrix, overwrite) of dmpbbo_io/EigenFileIO: an existing
\* file is an error unless overwrite is set; a file that cannot be opened is an
\* error; a failure is reported and leaves the file system as it was.
SaveMatrixFile(f, bad, path, matrix, ow) ==
  IF path \in DOMAIN f.files /\ ~ow
    THEN [fs |-> f, ok |-> FALSE, cerr |-> 1]
    ELSE IF path \in bad
      THEN [fs |-> f, ok |-> FALSE, cerr |-> 1]
      ELSE [fs |-> [f EXCEPT !.files = (path :> matrix) @@ @], ok |-> TRUE, cerr |-> 0]

\* saveMatrix(directory, filename, matrix, overwrite): makes the directory when
\* it is missing, then writes directory/filename.
SaveMatrix(f, bad, dir, filename, matrix, ow) ==
  IF Exists(f, dir)
    THEN SaveMatrixFile(f, bad, FilePath(dir, filename), matrix, ow)
    ELSE IF ~CreateDirectories(f, bad, dir).ok
      THEN [fs |-> f, ok |-> FALSE, cerr |-> 1]
      ELSE SaveMatrixFile(CreateDirectories(f, bad, dir).fs, bad,
                          FilePath(dir, filename), matrix, ow)

----------------------------------------------------------------------------
(* saveToDirectory *)

Write(filename, matrix) == [kind |-> "write", name |-> filename, matrix |-> matrix]
Crash == [kind |-> "crash", name |-> "", matrix |-> <<>>]

\* distributions_new[dd]: past the end of the vector the read is undefined;
\* oob is what it yields there: <<>> (the process dies) or <<d>> (some value).
DistAt(dists, dd, oob) == IF dd < Len(dists) THEN <<dists[dd + 1]>> ELSE oob

MeanCovar(meanname, covarname, d) ==
  IF d = <<>> THEN <<Crash>>
  ELSE << Write(meanname, << <<d[1].mean>> >>), Write(covarname, << <<d[1].covar>> >>) >>

RECURSIVE DistLoop(_, _, _, _, _)
\* for (dd = from; dd < n; dd++) { mean file; covar file }
DistLoop(prefix, dists, from, n, oob) ==
  IF from >= n THEN <<>>
  ELSE MeanCovar(DistFileName(prefix, from, "_mean.txt"),
                 DistFileName(prefix, from, "_covar.txt"), DistAt(dists, from, oob))
       \o DistLoop(prefix, dists, from + 1, n, oob)

\* (variant: the count file is written for a single distribution too)
WritesCurrentCounted(distributions) ==
  <<Write("n_parallel.txt", << <<Len(distributions)>> >>)>>
  \o (IF Len(distributions) = 1
        THEN MeanCovar("distribution_mean.txt", "distribution_covar.txt",
                       <<distributions[1]>>)
        ELSE DistLoop("/distribution_", distributions, 0, Len(distributions), <<>>))

\* lines 90-109: the current distribution(s)
WritesCurrent(distributions) ==
  IF Len(distributions) = 1
    THEN MeanCovar("distribution_mean.txt", "distribution_covar.txt",
                   <<distributions[1]>>)
    ELSE <<Write("n_parallel.txt", << <<Len(distributions)>> >>)>>
         \o DistLoop("/distribution_", distributions, 0, Len(distributions), <<>>)

\* (variant: the costs are written whenever there are samples)
WritesOptionalCostsWithSamples(cost_eval_ptr, smpls, csts, wghts) ==
  (IF cost_eval_ptr # <<>> THEN <<Write("cost_eval.txt", <<cost_eval_ptr>>)>> ELSE <<>>)
  \o (IF Len(smpls) > 0 THEN <<Write("samples.txt", smpls)>> ELSE <<>>)
  \o (IF Len(smpls) > 0 THEN <<Write("costs.txt", csts)>> ELSE <<>>)
  \o (IF Len(wghts) > 0 THEN <<Write("weights.txt", wghts)>> ELSE <<>>)

\* lines 111-122: the optional fields
WritesOptional(cost_eval_ptr, smpls, csts, wghts) ==
  (IF cost_eval_ptr # <<>> THEN <<Write("cost_eval.txt", <<cost_eval_ptr>>)>> ELSE <<>>)
  \o (IF Len(smpls) > 0 THEN <<Write("samples.txt", smpls)>> ELSE <<>>)
  \o (IF Len(csts) > 0 THEN <<Write("costs.txt", csts)>> ELSE <<>>)
  \o (IF Len(wghts) > 0 THEN <<Write("weights.txt", wghts)>> ELSE <<>>)

\* lines 123-140: the new distribution(s), as many as there are current ones
WritesNew(distributions, distributions_new, oob) ==
  IF Len(distributions) = 1
    THEN MeanCovar("distribution_new_mean.txt", "distribution_new_covar.txt",
                   DistAt(distributions_new, 0, oob))
    ELSE DistLoop("/distribution_new_", distributions_new, 0, Len(distributions), oob)

\* (variant: the flag is not honoured)
OwForced(overwrite_arg) == TRUE

\* line 85: bool ow = overwrite;
Ow(overwrite_arg) == overwrite_arg

\* (variant: the sizes are not compared)
AssertFailsNever(env, nd, nn) == FALSE

\* line 88: assert(distributions.size()==distributions_new.size()), compiled
\* out under NDEBUG
AssertFails(env, nd, nn) == ~env.ndebug /\ nd # nn

RECURSIVE SaveAllKeepGoing(_, _, _, _, _, _, _)
\* (variant: a failed write is remembered and the later files are still written)
SaveAllKeepGoing(r, bad, dir, ops, ow, k, none) ==
  IF k > Len(ops) THEN (IF r.failed = <<>> THEN [r EXCEPT !.ret = "true"] ELSE r)
  ELSE IF ops[k].kind = "crash" THEN [r EXCEPT !.ret = "abort"]
  ELSE LET w == SaveMatrix(r.fs, bad, dir, ops[k].name, ops[k].matrix, ow)
       IN IF ~w.ok
            THEN SaveAllKeepGoing([r EXCEPT !.ret = "false", !.cerr = @ + w.cerr,
                                            !.failed = <<ops[k].name>>],
                                  bad, dir, ops, ow, k + 1, none)
            ELSE SaveAllKeepGoing([r EXCEPT !.fs = w.fs, !.written = Append(@, ops[k].name)],
                                  bad, dir, ops, ow, k + 1, none)

RECURSIVE SaveAll(_, _, _, _, _, _, _)
\* the writes in order, each "if (!saveMatrix(dir, name, m, ow)) return false;"
SaveAll(r, bad, dir, ops, ow, k, none) ==
  IF k > Len(ops) THEN [r EXCEPT !.ret = "true"]
  ELSE IF ops[k].kind = "crash" THEN [r EXCEPT !.ret = "abort"]
  ELSE LET w == SaveMatrix(r.fs, bad, dir, ops[k].name, ops[k].matrix, ow)
       IN IF ~w.ok
            THEN [r EXCEPT !.ret = "false", !.cerr = @ + w.cerr, !.failed = <<ops[k].name>>]
            ELSE SaveAll([r EXCEPT !.fs = w.fs, !.written = Append(@, ops[k].name)],
                         bad, dir, ops, ow, k + 1, none)

\* The result of a call: the file system after it, what it returned ("true",
\* "false", or "abort" when the process died in it), the messages it put on
\* cerr, the files it wrote in order and the file at which it failed.
SaveResult(f, ret, msgs) == [fs |-> f, ret |-> ret, cerr |-> msgs, written |-> <<>>, failed |-> <<>>]

\* saveToDirectory(directory, i_update, distributions, cost_eval, samples, costs,
\*                 weights, distributions_new, overwrite)
\* env = [bad, ndebug, oob]: the paths that cannot be made or opened, whether
\* assert is compiled out, and what an out-of-range read yields.
SaveToDirectory(f, env, directory, i, distributions, cost_eval_ptr, smpls, csts, wghts, distributions_new, ow) ==
  LET root == directory
      mk1 == CreateDirectories(f, env.bad, root)
      f1 == IF Exists(f, root) THEN f ELSE mk1.fs
      dir_update == DirUpdate(directory, i)
      mk2 == CreateDirectories(f1, env.bad, dir_update)
      f2 == IF Exists(f1, dir_update) THEN f1 ELSE mk2.fs
      ops == WritesCurrent(distributions)
             \o WritesOptional(cost_eval_ptr, smpls, csts, wghts)
             \o WritesNew(distributions, distributions_new, env.oob)
  IN IF ~Exists(f, root) /\ ~mk1.ok THEN SaveResult(f, "false", 1)
     ELSE IF ~Exists(f1, dir_update) /\ ~mk2.ok THEN SaveResult(f1, "false", 1)
     ELSE IF AssertFails(env, Len(distributions), Len(distributions_new))
       THEN SaveResult(f2, "abort", 1)
     ELSE SaveAll(SaveResult(f2, "true", 0), env.bad, dir_update, ops, Ow(ow), 1, <<>>)

\* the overload for one distribution (lines 45-54)
SaveToDirectory1(f, env, directory, i, dist, cost_eval_ptr, smpls, csts, wghts, dist_new, ow) ==
  SaveToDirectory(f, env, directory, i, <<dist>>, cost_eval_ptr, smpls, csts, wghts,
                  <<dist_new>>, ow)

----------------------------------------------------------------------------
(* Collaborators of runOptimization *)

\* distribution.generateSamples(n, samples): n rows drawn around the mean
SampleMatrices(d, n) ==
  IF n <= 0 THEN {<<>>}
  ELSE {[k \in 1..n |-> <<d.mean + 2 * (k - 1) + o>>] : o \in Noise}

\* cost_function->evaluate(row): the squared norm of the parameter vector
CostFn(row) == row[1] * row[1]

\* the weights an updater reports for n samples
WeightsFor(n) == [k \in 1..n |-> <<1>>]

\* sqrt(distribution.maxEigenValue()) of a one-dimensional distribution
Sqrt(c) == CHOOSE r \in 0..c : r * r = c
Exploration(d) == Sqrt(d.covar)

\* i_update*n_samples_per_update in int arithmetic: the product when it fits
\* the type, any int when it overflows (signed overflow is undefined)
Abs(a) == IF a < 0 THEN -a ELSE a
FitsInt(a, b) == a = 0 \/ b = 0 \/ Abs(a) <= INT_MAX \div Abs(b)
IntProducts(a, b) == IF FitsInt(a, b) THEN {a * b} ELSE INT_MIN..INT_MAX

\* The environment the run's checkpoint calls see
SaveEnv == [bad |-> io_bad, ndebug |-> ndebug, oob |-> <<>>]

CallRecord(directory, i, nd, nn, ce, ow, r) ==
  [directory |-> directory, i_update |-> i, n_dists |-> nd, n_new |-> nn,
   cost_eval |-> ce, overwrite |-> ow, ret |-> r.ret, written |-> r.written,
   failed |-> r.failed, msgs |-> r.cerr]

NoProbe == [n |-> 0, arg |-> <<>>, val |-> <<>>, draws |-> 0]

----------------------------------------------------------------------------
(* runOptimization *)

\* lines 156-170: the locals are constructed.  An Eigen vector or matrix of
\* negative size cannot be allocated: the call dies there.
Allocate ==
  /\ pc = "init"
  /\ IF n_samples_per_update < 0 \/ n_updates < 0
       THEN /\ pc' = "aborted"
            /\ UNCHANGED <<costs, learning_curve>>
       ELSE /\ pc' = "probe"
            /\ costs' = [k \in 1..n_samples_per_update |-> <<>>]
            /\ learning_curve' = [r \in 1..n_updates |-> << <<>>, <<>>, <<>> >>]
  /\ UNCHANGED <<n_updates, n_samples_per_update, save_directory, overwrite,
                 only_learning_curve, i_update, i_sample, cost_eval, samples, weights,
                 distribution, distribution_new>>
  /\ UNCHANGED <<env_vars, hist_vars>>
  /\ UNCHANGED roll_vars

\* (variant: the loop also ends once a trial of the latest update cost no more
\* than 1)
MoreUpdatesUntilCheap ==
  /\ i_update < n_updates
  /\ ~\E k \in 1..Len(costs) : costs[k] = <<1>>

\* line 173: the test of the optimization loop
MoreUpdates == i_update < n_updates

\* (variant: the mean is evaluated in the first update only and the value kept)
ProbeFirstUpdateOnly ==
  /\ pc = "probe"
  /\ MoreUpdates
  /\ IF i_update = 0
       THEN /\ cost_eval' = <<CostFn(<<distribution.mean>>)>>
            /\ probe' = [n |-> probe.n + 1, arg |-> <<distribution.mean>>,
                         val |-> <<CostFn(<<distribution.mean>>)>>, draws |-> draws]
            /\ n_evaluate' = n_evaluate + 1
       ELSE UNCHANGED <<cost_eval, probe, n_evaluate>>
  /\ pc' = "sample"
  /\ UNCHANGED <<n_updates, n_samples_per_update, save_directory, overwrite,
                 only_learning_curve, i_update, i_sample, samples, costs, weights,
                 distribution, distribution_new, learning_curve>>
  /\ UNCHANGED <<env_vars, trials, draws, upd_in, upd_out, save_call, save_prev, n_save,
                 lc_writes>>
  /\ UNCHANGED roll_vars

\* line 173 (loop test) and line 176: cost of the current distribution mean
Probe ==
  /\ pc = "probe"
  /\ MoreUpdates
  /\ cost_eval' = <<CostFn(<<distribution.mean>>)>>
  /\ probe' = [n |-> probe.n + 1, arg |-> <<distribution.mean>>,
               val |-> <<CostFn(<<distribution.mean>>)>>, draws |-> draws]
  /\ n_evaluate' = n_evaluate + 1
  /\ pc' = "sample"
  /\ UNCHANGED <<n_updates, n_samples_per_update, save_directory, overwrite,
                 only_learning_curve, i_update, i_sample, samples, costs, weights,
                 distribution, distribution_new, learning_curve>>
  /\ UNCHANGED <<env_vars, trials, draws, upd_in, upd_out, save_call, save_prev, n_save,
                 lc_writes>>
  /\ UNCHANGED roll_vars

\* (variant: the samples are drawn in the first update and used in all)
SampleFirstUpdateOnly ==
  /\ pc = "sample"
  /\ IF i_update = 0
       THEN \E m \in SampleMatrices(distribution, n_samples_per_update) : samples' = m
       ELSE samples' = samples
  /\ draws' = draws + 1
  /\ i_sample' = 0
  /\ pc' = "eval"
  /\ UNCHANGED <<n_updates, n_samples_per_update, save_directory, overwrite,
                 only_learning_curve, i_update, cost_eval, costs, weights,
                 distribution, distribution_new, learning_curve>>
  /\ UNCHANGED <<env_vars, n_evaluate, probe, trials, upd_in, upd_out, save_call, save_prev,
                 n_save, lc_writes>>
  /\ UNCHANGED roll_vars

\* line 179: sample from the distribution
Sample ==
  /\ pc = "sample"
  /\ \E m \in SampleMatrices(distribution, n_samples_per_update) : samples' = m
  /\ draws' = draws + 1
  /\ i_sample' = 0
  /\ pc' = "eval"
  /\ UNCHANGED <<n_updates, n_samples_per_update, save_directory, overwrite,
                 only_learning_curve, i_update, cost_eval, costs, weights,
                 distribution, distribution_new, learning_curve>>
  /\ UNCHANGED <<env_vars, n_evaluate, probe, trials, upd_in, upd_out, save_call, save_prev,
                 n_save, lc_writes>>
  /\ UNCHANGED roll_vars

\* (variant: every trial evaluates the first row)
TrialRowFirst(smpls, k) == smpls[1]

\* line 183: samples.row(i_sample)
TrialRow(smpls, k) == smpls[k + 1]

\* lines 182-183: one pass of the loop over the samples
EvaluateSample ==
  /\ pc = "eval"
  /\ i_sample < n_samples_per_update
  /\ costs' = [costs EXCEPT ![i_sample + 1] = <<CostFn(TrialRow(samples, i_sample))>>]
  /\ trials' = Append(trials, [k |-> i_sample, arg |-> TrialRow(samples, i_sample),
                               val |-> <<CostFn(TrialRow(samples, i_sample))>>])
  /\ n_evaluate' = n_evaluate + 1
  /\ i_sample' = i_sample + 1
  /\ UNCHANGED <<n_updates, n_samples_per_update, save_directory, overwrite,
                 only_learning_curve, pc, i_update, cost_eval, samples, weights,
                 distribution, distribution_new, learning_curve>>
  /\ UNCHANGED <<env_vars, probe, draws, upd_in, upd_out, save_call, save_prev, n_save,
                 lc_writes>>
  /\ UNCHANGED roll_vars

\* cost_function->evaluate throws: nothing in runOptimization catches it
EvaluateThrows ==
  /\ \/ pc = "probe" /\ MoreUpdates
     \/ pc = "eval" /\ i_sample < n_samples_per_update
  /\ n_evaluate' = n_evaluate + 1
  /\ pc' = "aborted"
  /\ UNCHANGED <<n_updates, n_samples_per_update, save_directory, overwrite,
                 only_learning_curve, i_update, i_sample, cost_eval, samples, costs,
                 weights, distribution, distribution_new, learning_curve>>
  /\ UNCHANGED <<env_vars, probe, trials, draws, upd_in, upd_out, save_call, save_prev,
                 n_save, lc_writes>>
  /\ UNCHANGED roll_vars

UpdateInputs == [distribution |-> distribution, samples |-> samples, costs |-> costs,
                 i_update |-> i_update]

\* line 186: the updater writes weights and distribution_new
Update ==
  /\ pc = "eval"
  /\ i_sample >= n_samples_per_update
  /\ \E d \in Dists :
       /\ distribution_new' = d
       /\ upd_out' = <<d>>
  /\ weights' = WeightsFor(n_samples_per_update)
  /\ upd_in' = <<UpdateInputs>>
  /\ pc' = "book"
  /\ UNCHANGED <<n_updates, n_samples_per_update, save_directory, overwrite,
                 only_learning_curve, i_update, i_sample, cost_eval, samples, costs,
                 distribution, learning_curve>>
  /\ UNCHANGED <<env_vars, n_evaluate, probe, trials, draws, save_call, save_prev, n_save,
                 lc_writes>>
  /\ UNCHANGED roll_vars

\* line 186, an updater that cannot compute a new distribution from these
\* samples and costs: updateDistribution returns void, so all it can do is
\* return without having written its outputs
UpdateDegenerate ==
  /\ pc = "eval"
  /\ i_sample >= n_samples_per_update
  /\ upd_out' = <<>>
  /\ upd_in' = <<UpdateInputs>>
  /\ pc' = "book"
  /\ UNCHANGED <<n_updates, n_samples_per_update, save_directory, overwrite,
                 only_learning_curve, i_update, i_sample, cost_eval, samples, costs,
                 weights, distribution, distribution_new, learning_curve>>
  /\ UNCHANGED <<env_vars, n_evaluate, probe, trials, draws, save_call, save_prev, n_save,
                 lc_writes>>
  /\ UNCHANGED roll_vars

\* line 186, an updater that throws: nothing in runOptimization catches it
UpdateThrows ==
  /\ pc = "eval"
  /\ i_sample >= n_samples_per_update
  /\ upd_in' = <<UpdateInputs>>
  /\ pc' = "aborted"
  /\ UNCHANGED <<n_updates, n_samples_per_update, save_directory, overwrite,
                 only_learning_curve, i_update, i_sample, cost_eval, samples, costs,
                 weights, distribution, distribution_new, learning_curve>>
  /\ UNCHANGED <<env_vars, n_evaluate, probe, trials, draws, upd_out, save_call, save_prev,
                 n_save, lc_writes>>
  /\ UNCHANGED roll_vars

\* (variant: the samples of this update are counted in)
SamplesSoFarInclusive(i, n) == IntProducts(i + 1, n)

\* line 198: i_update*n_samples_per_update, "how many samples so far?"
SamplesSoFar(i, n) == IntProducts(i, n)

\* (variant: a failed checkpoint ends the run)
AfterCheckpointChecked(ret) == IF ret = "true" THEN "assign" ELSE "aborted"

\* line 204: the value saveToDirectory returns is not looked at; the loop goes
\* on at line 209 unless the process died in the call
AfterCheckpoint(ret) == IF ret = "abort" THEN "aborted" ELSE "assign"

\* (variant: the exploration magnitude is taken from the updated distribution)
LearningCurveRowUpdated(c0) == << <<c0>>, cost_eval, <<Exploration(distribution_new)>> >>

\* lines 198-200: the row of the learning curve
LearningCurveRow(c0) == << <<c0>>, cost_eval, <<Exploration(distribution)>> >>

\* (variant: the checkpoint is taken after the assignment of line 209)
CheckpointAfterAssignment ==
  SaveToDirectory1(fs, SaveEnv, save_directory, i_update, distribution_new, cost_eval,
                   samples, costs, weights, distribution_new, ow_default)

\* line 204: the checkpoint of this update; the overwrite argument is left to
\* its default
Checkpoint ==
  SaveToDirectory1(fs, SaveEnv, save_directory, i_update, distribution, cost_eval,
                   samples, costs, weights, distribution_new, ow_default)

\* (variant: the per-update files are written in every mode with a directory)
SaveMoreAlways == TRUE

\* line 202: save more than just the learning curve
SaveMore == ~only_learning_curve

\* lines 189-206: bookkeeping
Bookkeeping ==
  /\ pc = "book"
  /\ IF save_directory = ""
       THEN UNCHANGED <<learning_curve, fs, cerr, save_call, save_prev, n_save>>
       ELSE /\ \E c0 \in SamplesSoFar(i_update, n_samples_per_update) :
                 learning_curve' = [learning_curve EXCEPT ![i_update + 1] = LearningCurveRow(c0)]
            /\ IF SaveMore
                 THEN /\ fs' = Checkpoint.fs
                      /\ cerr' = cerr + Checkpoint.cerr
                      /\ save_call' = <<CallRecord(save_directory, i_update, 1, 1, cost_eval, ow_default, Checkpoint)>>
                      /\ save_prev' = save_call
                      /\ n_save' = n_save + 1
                 ELSE UNCHANGED <<fs, cerr, save_call, save_prev, n_save>>
  /\ pc' = IF save_directory # "" /\ SaveMore
             THEN AfterCheckpoint(Checkpoint.ret) ELSE "assign"
  /\ UNCHANGED <<n_updates, n_samples_per_update, save_directory, overwrite,
                 only_learning_curve, i_update, i_sample, cost_eval, samples, costs,
                 weights, distribution, distribution_new>>
  /\ UNCHANGED <<io_bad, ow_default, ndebug, given, n_evaluate, probe, trials, draws, upd_in, upd_out,
                 lc_writes>>
  /\ UNCHANGED roll_vars

\* (variant: an update is accepted only when it does not widen the search)
NextDistributionGated(current, new) == IF new.covar <= current.covar THEN new ELSE current

\* line 209: distribution = distribution_new
NextDistribution(current, new) == new

\* line 209 and the loop increment of line 173
Assign ==
  /\ pc = "assign"
  /\ distribution' = NextDistribution(distribution, distribution_new)
  /\ i_update' = i_update + 1
  /\ pc' = "probe"
  /\ probe' = NoProbe
  /\ trials' = <<>>
  /\ draws' = 0
  /\ UNCHANGED <<n_updates, n_samples_per_update, save_directory, overwrite,
                 only_learning_curve, i_sample, cost_eval, samples, costs, weights,
                 distribution_new, learning_curve>>
  /\ UNCHANGED <<env_vars, n_evaluate, upd_in, upd_out, save_call, save_prev, n_save,
                 lc_writes>>
  /\ UNCHANGED roll_vars

\* (variant: the learning curve is never written over an existing file)
SaveLearningCurveKeep ==
  SaveMatrix(fs, io_bad, save_directory, "learning_curve.txt", learning_curve, FALSE)

\* line 215: the write of the learning curve
SaveLearningCurve ==
  SaveMatrix(fs, io_bad, save_directory, "learning_curve.txt", learning_curve,
             overwrite)

\* lines 213-215: after the loop, save the learning curve if necessary
Finish ==
  /\ pc = "probe"
  /\ ~MoreUpdates
  /\ IF save_directory # ""
       THEN /\ fs' = SaveLearningCurve.fs
            /\ cerr' = cerr + SaveLearningCurve.cerr
            /\ lc_writes' = lc_writes + 1
       ELSE UNCHANGED <<fs, cerr, lc_writes>>
  /\ pc' = "done"
  /\ UNCHANGED run_vars_but_pc
  /\ UNCHANGED <<io_bad, ow_default, ndebug, given, n_evaluate, probe, trials, draws, upd_in, upd_out,
                 save_call, save_prev, n_save>>
  /\ UNCHANGED roll_vars

----------------------------------------------------------------------------
(* The states a run starts from *)

NoFailure == [bad |-> {}, ndebug |-> FALSE, oob |-> <<>>]

RECURSIVE EarlierRun(_, _)
\* the checkpoints update00000 .. of an earlier run in directory "out"
EarlierRun(f, i) ==
  IF i >= MaxUpdates THEN f
  ELSE EarlierRun(SaveToDirectory1(f, NoFailure, "out", i, OldDist, <<7>>, << <<7>> >>,
                                   << <<7>> >>, << <<7>> >>, OldDist, FALSE).fs, i + 1)

PopulatedFs ==
  SaveMatrix(EarlierRun(EmptyFs, 0), {}, "out", "learning_curve.txt",
             << <<7, 7, 7>> >>, FALSE).fs

\* what may be impossible to create or open in a run
BadChoices ==
  { {}, {"out"}, {DirUpdate("out", 1)},
    {FilePath(DirUpdate("out", 0), "samples.txt")},
    {FilePath(DirUpdate("out", 1), "distribution_new_covar.txt")},
    {FilePath("out", "learning_curve.txt")} }

AllGiven == [cost_eval |-> TRUE, samples |-> TRUE, costs |-> TRUE, weights |-> TRUE]

InitHistory ==
  /\ n_evaluate = 0
  /\ probe = NoProbe
  /\ trials = <<>>
  /\ draws = 0
  /\ upd_in = <<>>
  /\ upd_out = <<>>
  /\ save_call = <<>>
  /\ save_prev = <<>>
  /\ n_save = 0
  /\ lc_writes = 0

\* performRollouts is not called
NoRollouts ==
  /\ dim_orig = 1
  /\ roll_samples = <<>>
  /\ n_samples = 0
  /\ roll_k = 0
  /\ dmp_parameters = <<>>
  /\ cost_vars = <<>>
  /\ set_calls = <<>>

InitLocals ==
  /\ i_update = 0
  /\ i_sample = 0
  /\ cost_eval = <<>>
  /\ samples = <<>>
  /\ costs = <<>>
  /\ weights = <<>>
  /\ learning_curve = <<>>

\* runOptimization is entered: any parameters, initial distribution cloned
\* into distribution and distribution_new (lines 169-170)
Init ==
  /\ n_updates \in -1..MaxUpdates
  /\ n_samples_per_update \in -1..MaxSamples
  /\ save_directory \in Directories
  /\ overwrite \in BOOLEAN
  /\ only_learning_curve \in BOOLEAN
  /\ pc = "init"
  /\ InitLocals
  /\ distribution = InitialDistribution
  /\ distribution_new = InitialDistribution
  /\ fs \in {EmptyFs, PopulatedFs}
  /\ io_bad \in BadChoices
  /\ ow_default \in BOOLEAN
  /\ ndebug = FALSE
  /\ given = AllGiven
  /\ cerr = 0
  /\ InitHistory
  /\ NoRollouts

Next ==
  \/ Allocate
  \/ Probe
  \/ Sample
  \/ EvaluateSample
  \/ EvaluateThrows
  \/ Update
  \/ UpdateDegenerate
  \/ UpdateThrows
  \/ Bookkeeping
  \/ Assign
  \/ Finish

Spec == Init /\ [][Next]_vars

\* runOptimization with a cost function, a sampler and an updater whose calls
\* all return: no step throws.
ReturningSteps ==
  \/ Allocate
  \/ Probe
  \/ Sample
  \/ EvaluateSample
  \/ Update
  \/ UpdateDegenerate
  \/ Assign
  \/ Finish

NextReturns == ReturningSteps \/ Bookkeeping

\* lines 191-206 hold no loop: the bookkeeping is left, for the assignment or
\* because the process died in it
LeaveBookkeeping == pc = "book" /\ pc' \in {"assign", "aborted"}

\* The function is one sequential thread: a step that can be taken is taken,
\* and the calls of the bookkeeping come back.
SpecReturns ==
  Init /\ [][NextReturns]_vars /\ WF_vars(ReturningSteps) /\ WF_pc(LeaveBookkeeping)

----------------------------------------------------------------------------
(* saveToDirectory called directly, twice in a row, by a program that passes
   several distributions *)

\* the k-th distribution of the call number c
Payload(c, k) == [mean |-> 10 * c + k, covar |-> (c + k + 1) * (c + k + 1)]
PayloadVector(c, n, from) == [k \in 1..n |-> Payload(c, from + k)]
PayloadMatrix(present, c) == IF present THEN << <<c>> >> ELSE <<>>

SaveBadChoices ==
  { {}, {"out"}, {DirUpdate("out", 1)},
    {FilePath(DirUpdate("out", 0), "costs.txt")},
    {FilePath(DirUpdate("out", 0), "/distribution_new_000_covar.txt")} }

InitSave ==
  /\ n_updates = 0
  /\ n_samples_per_update = 0
  /\ save_directory = "out"
  /\ overwrite = FALSE
  /\ only_learning_curve = FALSE
  /\ pc = "api"
  /\ InitLocals
  /\ distribution = InitialDistribution
  /\ distribution_new = InitialDistribution
  /\ fs = EmptyFs
  /\ io_bad \in SaveBadChoices
  /\ ow_default = FALSE
  /\ ndebug \in BOOLEAN
  /\ given \in [cost_eval : BOOLEAN, samples : BOOLEAN, costs : BOOLEAN, weights : BOOLEAN]
  /\ cerr = 0
  /\ InitHistory
  /\ NoRollouts

SaveCallResult(i, nd, nn, ow, oob) ==
  SaveToDirectory(fs, [bad |-> io_bad, ndebug |-> ndebug, oob |-> oob], save_directory, i,
                  PayloadVector(n_save, nd, 0),
                  IF given.cost_eval THEN <<n_save>> ELSE <<>>,
                  PayloadMatrix(given.samples, n_save),
                  PayloadMatrix(given.costs, n_save),
                  PayloadMatrix(given.weights, n_save),
                  PayloadVector(n_save, nn, MaxParallel + 1), ow)

SaveCall ==
  /\ pc = "api"
  /\ n_save < 2
  /\ \E i \in 0..1, nd \in 0..MaxParallel, ow \in BOOLEAN :
     \E nn \in (nd - 1)..(nd + 1) \cap 0..MaxParallel :
     \E oob \in (IF ndebug /\ nn < nd THEN {<<>>, <<OldDist>>} ELSE {<<>>}) :
       LET r == SaveCallResult(i, nd, nn, ow, oob)
       IN /\ fs' = r.fs
          /\ cerr' = cerr + r.cerr
          /\ save_call' = <<CallRecord(save_directory, i, nd, nn, IF given.cost_eval THEN <<n_save>> ELSE <<>>, ow, r)>>
          /\ pc' = IF r.ret = "abort" THEN "aborted" ELSE "api"
  /\ save_prev' = save_call
  /\ n_save' = n_save + 1
  /\ UNCHANGED run_vars_but_pc
  /\ UNCHANGED <<io_bad, ow_default, ndebug, given, n_evaluate, probe, trials, draws, upd_in,
                 upd_out, lc_writes>>
  /\ UNCHANGED roll_vars

NextSave == SaveCall

SpecSave == InitSave /\ [][NextSave]_vars

----------------------------------------------------------------------------
(* TaskSolverDmp::performRollouts (src/src/dmp_bbo/TaskSolverDmp.cpp).  The
   Dmp is a collaborator: it holds the model parameters last set on it and
   its trajectory is a function of them.  n_time_steps_ is 1. *)

\* what a read outside a matrix may yield, when it does not end the process
GarbageRows == {<<0>>, <<-1>>}

\* (variant: every distribution's parameters are taken from samples[0])
ModelParametersVecOfFirst(smpls, kk) == [dd \in 1..Len(smpls) |-> smpls[1][kk + 1]]

\* lines 91-92: model_parameters_vec[dd] = samples[dd].row(k)
ModelParametersVec(smpls, kk) == [dd \in 1..Len(smpls) |-> smpls[dd][kk + 1]]

\* row k exists in every matrix
RowsInRange(smpls, kk) == \A dd \in 1..Len(smpls) : kk < Len(smpls[dd])

\* lines 91-92 when some matrix has no row k (possible only with the
\* assertions compiled out): the read is undefined
ModelParametersVecs(smpls, kk) ==
  IF RowsInRange(smpls, kk) THEN {ModelParametersVec(smpls, kk)}
  ELSE {[dd \in 1..Len(smpls) |-> IF kk < Len(smpls[dd]) THEN smpls[dd][kk + 1] ELSE g] :
          g \in GarbageRows}

\* the Dmp's trajectory at the one time step, from the parameters it holds:
\* ys, yds, ydds, forcing terms (one entry per dimension)
Ys(parameters) == [dd \in 1..Len(parameters) |-> parameters[dd][1]]
Yds(parameters) == [dd \in 1..Len(parameters) |-> 2 * parameters[dd][1]]
Ydds(parameters) == [dd \in 1..Len(parameters) |-> 3 * parameters[dd][1]]
ForcingTerms(parameters) == [dd \in 1..Len(parameters) |-> parameters[dd][1] + 1000]

\* lines 105-113: row k of cost_vars: ys, yds, ydds, ts, forcing terms
CostVarsRow(parameters) ==
  Ys(parameters) \o Yds(parameters) \o Ydds(parameters) \o <<0>> \o ForcingTerms(parameters)

\* lines 74-81: the three assertions
RolloutAssertionsHold ==
  /\ Len(roll_samples) > 0
  /\ Len(roll_samples) = dim_orig
  /\ \A dd \in 2..Len(roll_samples) : Len(roll_samples[dd]) = Len(roll_samples[1])

\* lines 73-88: sizes, assertions, cost_vars.resize.  With the assertions
\* compiled out and no matrix at all, samples[0].rows() is undefined.
RolloutsEnter ==
  /\ pc = "rollouts"
  /\ IF ~ndebug /\ ~RolloutAssertionsHold
       THEN /\ pc' = "aborted"
            /\ UNCHANGED <<n_samples, cost_vars>>
       ELSE IF Len(roll_samples) = 0
         THEN \/ /\ pc' = "aborted"
                 /\ UNCHANGED <<n_samples, cost_vars>>
              \/ \E n \in 0..MaxSamples :
                   /\ n_samples' = n
                   /\ cost_vars' = [k \in 1..n |-> <<>>]
                   /\ pc' = "roll_set"
         ELSE /\ n_samples' = Len(roll_samples[1])
              /\ cost_vars' = [k \in 1..Len(roll_samples[1]) |-> <<>>]
              /\ pc' = "roll_set"
  /\ roll_k' = 0
  /\ UNCHANGED <<dim_orig, roll_samples, dmp_parameters, set_calls>>
  /\ UNCHANGED <<run_vars_but_pc, env_vars, hist_vars>>

\* lines 89-93: the parameters of trial k are collected and set on the Dmp
RolloutSetParameters ==
  /\ pc = "roll_set"
  /\ roll_k < n_samples
  /\ \/ \E v \in ModelParametersVecs(roll_samples, roll_k) :
          /\ dmp_parameters' = <<v>>
          /\ set_calls' = Append(set_calls, v)
          /\ pc' = "roll_run"
     \/ /\ ~RowsInRange(roll_samples, roll_k)
        /\ pc' = "aborted"
        /\ UNCHANGED <<dmp_parameters, set_calls>>
  /\ UNCHANGED <<dim_orig, roll_samples, n_samples, roll_k, cost_vars>>
  /\ UNCHANGED <<run_vars_but_pc, env_vars, hist_vars>>

\* lines 95-113: the Dmp is integrated and row k of cost_vars filled
RolloutIntegrate ==
  /\ pc = "roll_run"
  /\ cost_vars' = [cost_vars EXCEPT ![roll_k + 1] = CostVarsRow(dmp_parameters[1])]
  /\ roll_k' = roll_k + 1
  /\ pc' = "roll_set"
  /\ UNCHANGED <<dim_orig, roll_samples, n_samples, dmp_parameters, set_calls>>
  /\ UNCHANGED <<run_vars_but_pc, env_vars, hist_vars>>

\* line 89 (loop test) and line 115
RolloutsReturn ==
  /\ pc = "roll_set"
  /\ roll_k >= n_samples
  /\ pc' = "done"
  /\ UNCHANGED roll_vars
  /\ UNCHANGED <<run_vars_but_pc, env_vars, hist_vars>>

\* the sample matrices a caller may pass: any number of distributions, any
\* number of rows in each, every entry different from every other
RolloutEntry(seed, dd, k) == 100 * seed + 10 * dd + k
RolloutMatrix(seed, dd, rows) == [k \in 1..rows |-> <<RolloutEntry(seed, dd, k)>>]
RolloutSeeds == {1, 2}
RolloutInputs ==
  UNION {{[dd \in 1..n |-> RolloutMatrix(seed, dd, rows[dd])] :
            rows \in [1..n -> 0..MaxSamples], seed \in RolloutSeeds} : n \in 0..MaxParallel}

InitRollouts ==
  /\ n_updates = 0
  /\ n_samples_per_update = 0
  /\ save_directory = ""
  /\ overwrite = FALSE
  /\ only_learning_curve = FALSE
  /\ pc = "rollouts"
  /\ InitLocals
  /\ distribution = InitialDistribution
  /\ distribution_new = InitialDistribution
  /\ fs = EmptyFs
  /\ io_bad = {}
  /\ ow_default = FALSE
  /\ ndebug \in BOOLEAN
  /\ given = AllGiven
  /\ cerr = 0
  /\ InitHistory
  /\ dim_orig \in 1..MaxParallel
  /\ roll_samples \in RolloutInputs
  /\ n_samples = 0
  /\ roll_k = 0
  /\ dmp_parameters = <<>>
  /\ cost_vars = <<>>
  /\ set_calls = <<>>

NextRollouts ==
  \/ RolloutsEnter
  \/ RolloutSetParameters
  \/ RolloutIntegrate
  \/ RolloutsReturn

SpecRollouts == InitRollouts /\ [][NextRollouts]_vars

----------------------------------------------------------------------------
(* Properties of runOptimization, checked under Spec *)

FullDump == save_directory # "" /\ ~only_learning_curve

\* the bookkeeping of update i has run
RowBooked(i) == i < i_update \/ (i = i_update /\ pc = "assign")

\* the file of update i called name
UpdateFile(directory, i, name) == FilePath(DirUpdate(directory, i), name)

InSeq(x, seq) == \E k \in 1..Len(seq) : seq[k] = x

\* C1: once an update has completed, the current distribution is exactly the
\* distribution the updater wrote in that update; it stays so until the next
\* assignment (the loop changes it nowhere else).
C1_CurrentIsUpdaterOutput ==
  (pc \in {"probe", "sample", "eval", "done", "aborted"} /\ upd_out # <<>>)
    => distribution = upd_out[1]

C1_Witness ==
  /\ pc = "probe"
  /\ i_update = 2
  /\ upd_out # <<>>
  /\ distribution = upd_out[1]
  /\ distribution # InitialDistribution

\* C2 as stated: in every persistence mode, once update i has completed,
\* learning_curve[i][0] = i * n_samples_per_update.
C2_Original ==
  \A i \in 0..(n_updates - 1) :
    i < i_update =>
      /\ Len(learning_curve) > i
      /\ learning_curve[i + 1][1] = <<i * n_samples_per_update>>

\* C2 as amended: with a save directory, once the bookkeeping of update i has
\* run, learning_curve[i][0] = i * n_samples_per_update whenever the product
\* fits an int; without a save directory no row is ever written.
C2_SampleCountWhenSaving ==
  /\ save_directory # "" =>
       \A i \in 0..(n_updates - 1) :
         (RowBooked(i) /\ FitsInt(i, n_samples_per_update)) =>
           learning_curve[i + 1][1] = <<i * n_samples_per_update>>
  /\ save_directory = "" =>
       \A r \in 1..Len(learning_curve) : learning_curve[r] = << <<>>, <<>>, <<>> >>

C2_Witness ==
  /\ save_directory # ""
  /\ pc = "done"
  /\ n_updates = 2
  /\ n_samples_per_update = 2
  /\ learning_curve[2][1] = <<2>>

\* C3: in every update the mean is evaluated exactly once, before any sample
\* of that update is drawn, on the mean of the distribution current at the
\* start of the update (the updater's output of the update before); the value
\* in learning_curve[i][1] and the cost_eval given to the checkpoint are the
\* value of that call.
C3_ProbeOncePerUpdate ==
  /\ pc = "probe" => probe.n = 0
  /\ pc \in {"sample", "eval", "book", "assign"} =>
       /\ probe.n = 1
       /\ probe.draws = 0
       /\ probe.arg = <<distribution.mean>>
       /\ probe.val = <<CostFn(probe.arg)>>
       /\ cost_eval = probe.val
  /\ (pc \in {"sample", "eval"} /\ upd_out # <<>>) => probe.arg = <<upd_out[1].mean>>
  /\ (pc = "assign" /\ save_directory # "") => learning_curve[i_update + 1][2] = probe.val
  /\ (pc = "assign" /\ FullDump) =>
       /\ save_call # <<>>
       /\ save_call[1].i_update = i_update
       /\ save_call[1].cost_eval = probe.val
       /\ InSeq("cost_eval.txt", save_call[1].written) =>
            fs.files[UpdateFile(save_directory, i_update, "cost_eval.txt")] = <<probe.val>>

C3_Witness ==
  /\ pc = "assign"
  /\ i_update = 1
  /\ FullDump
  /\ probe.n = 1
  /\ probe.arg = <<0>>
  /\ learning_curve[1][2] = <<1>>
  /\ learning_curve[2][2] = <<0>>
  /\ InSeq("cost_eval.txt", save_call[1].written)

\* C4: in every update the evaluator is called once per trial k, in order,
\* with row k of the samples, and costs[k] is what that call returned; no trial
\* is evaluated twice, so a run that completes has made
\* n_updates * (n_samples_per_update + 1) calls.
C4_OneEvaluationPerTrial ==
  /\ pc \in {"eval", "book", "assign"} =>
       /\ Len(trials) = i_sample
       /\ \A k \in 1..Len(trials) :
            /\ trials[k].k = k - 1
            /\ trials[k].arg = samples[k]
            /\ costs[k] = trials[k].val
  /\ pc \in {"book", "assign"} => Len(trials) = n_samples_per_update
  /\ pc \in {"probe", "sample", "eval", "book", "assign"} =>
       n_evaluate = i_update * (n_samples_per_update + 1) + probe.n + Len(trials)
  /\ pc = "done" => n_evaluate = n_updates * (n_samples_per_update + 1)

C4_Witness ==
  /\ pc = "done"
  /\ n_updates = 2
  /\ n_samples_per_update = 2
  /\ n_evaluate = 6

\* C5 as stated: a call with n_updates < 1 or n_samples_per_update < 1 is
\* rejected before any cost evaluation, sampling, updater call or file write.
C5_Original ==
  (n_updates < 1 \/ n_samples_per_update < 1) =>
    /\ n_evaluate = 0
    /\ draws = 0
    /\ upd_in = <<>>
    /\ n_save = 0
    /\ lc_writes = 0

\* C6 as stated: when the updater could not produce a new distribution in
\* update i, the run stops there: the loop never goes past that update.
C6_Original ==
  ~(upd_in # <<>> /\ upd_out = <<>> /\ i_update > upd_in[1].i_update)

FailedSaves == {c \in {save_call, save_prev} : c # <<>> /\ c[1].ret = "false"}

\* C7: when the checkpoint of update i fails (saveToDirectory returns false),
\* the failure is reported on cerr and the run is not aborted: control goes on
\* to the assignment current <- new, the update completes, and a run that
\* ends has made all n_updates updates and all n_updates checkpoint calls.
C7_FailedCheckpointDoesNotAbort ==
  /\ \A c \in FailedSaves :
       /\ c[1].msgs >= 1
       /\ cerr >= 1
       /\ i_update = c[1].i_update => pc = "assign"
       /\ pc = "aborted" => i_update > c[1].i_update
       /\ (i_update = c[1].i_update + 1 /\ pc \in {"probe", "sample", "eval", "done"})
            => distribution = distribution_new
  /\ pc = "done" =>
       /\ i_update = n_updates
       /\ FullDump => n_save = n_updates

C7_Witness ==
  /\ pc = "done"
  /\ n_updates = 2
  /\ i_update = 2
  /\ save_prev # <<>>
  /\ save_prev[1].ret = "false"
  /\ save_prev[1].i_update = 0
  /\ save_call[1].i_update = 1
  /\ distribution = distribution_new

\* C8 as stated: no update directory holds only part of its checkpoint while
\* the run goes on to later updates.
C8_Original ==
  \A c \in FailedSaves :
    (/\ c[1].written # <<>>
     /\ UpdateFile(c[1].directory, c[1].i_update, c[1].failed[1]) \notin DOMAIN fs.files)
      => i_update <= c[1].i_update

\* the names of the checkpoint files of a run
CheckpointNames ==
  {"distribution_mean.txt", "distribution_covar.txt", "cost_eval.txt", "samples.txt",
   "costs.txt", "weights.txt", "distribution_new_mean.txt", "distribution_new_covar.txt"}

\* C10 as stated (its consequence): the run's overwrite flag governs the
\* checkpoint files too, so with overwrite set a completed run over a
\* populated directory has rewritten every per-update file.
C10_Original ==
  (pc = "done" /\ FullDump /\ overwrite /\ io_bad = {} /\ n_samples_per_update >= 1) =>
    \A i \in 0..(n_updates - 1) : \A name \in CheckpointNames :
      (/\ UpdateFile(save_directory, i, name) \in DOMAIN fs.files
       /\ UpdateFile(save_directory, i, name) \in DOMAIN PopulatedFs.files) =>
          fs.files[UpdateFile(save_directory, i, name)]
            # PopulatedFs.files[UpdateFile(save_directory, i, name)]

\* the file of the learning curve
LearningCurveFile == FilePath(save_directory, "learning_curve.txt")

\* the learning-curve file is as it was when the run started
LearningCurveFileUntouched ==
  LearningCurveFile \in DOMAIN fs.files =>
    /\ LearningCurveFile \in DOMAIN PopulatedFs.files
    /\ fs.files[LearningCurveFile] = PopulatedFs.files[LearningCurveFile]

\* C13: the write of learning_curve.txt is made exactly once in a run that
\* has a save directory and ends, and only after all n_updates updates: until
\* the run is done no write has been made and the file is as it was; a write
\* that can succeed leaves the whole learning curve in the file.  Without a
\* save directory no write is ever made.
C13_LearningCurveWrittenOnceAtEnd ==
  /\ pc # "done" => (lc_writes = 0 /\ LearningCurveFileUntouched)
  /\ pc = "done" =>
       /\ i_update = n_updates
       /\ lc_writes = (IF save_directory # "" THEN 1 ELSE 0)
       /\ (save_directory # "" /\ overwrite /\ io_bad \notin {{"out"}, {LearningCurveFile}})
            => /\ LearningCurveFile \in DOMAIN fs.files
               /\ fs.files[LearningCurveFile] = learning_curve
  /\ save_directory = "" => (lc_writes = 0 /\ LearningCurveFileUntouched)

C13_Witness ==
  /\ pc = "done"
  /\ n_updates = 2
  /\ i_update = 2
  /\ save_directory = "out"
  /\ lc_writes = 1
  /\ n_save = 2
  /\ fs.files[LearningCurveFile] = learning_curve
  /\ Len(learning_curve) = 2
  /\ learning_curve[2][1] # <<>>

BlankRow == << <<>>, <<>>, <<>> >>

\* C14 as stated: every update that has completed has written its row of the
\* learning curve, with the exploration magnitude in column 2.
C14_Original ==
  \A i \in 0..(n_updates - 1) :
    i < i_update =>
      /\ Len(learning_curve) > i
      /\ learning_curve[i + 1][3] # <<>>

\* C14 as amended: with a save directory, row i is written in update i, after
\* the updater call and before the assignment, and never changed afterwards;
\* its column 2 is the square root of the largest eigenvalue of the
\* distribution that was sampled and passed to the updater in update i.
\* Without a save directory no row is written.
C14_RowFinalOnce ==
  /\ [](pc \in {"probe", "sample", "eval", "book", "assign", "done"} =>
          \A r \in 1..Len(learning_curve) :
            /\ (r - 1 > i_update \/ (r - 1 = i_update /\ pc # "assign") \/ save_directory = "")
                 => learning_curve[r] = BlankRow
            /\ (save_directory # "" /\ r - 1 = i_update /\ pc = "assign") =>
                 learning_curve[r][3] = <<Exploration(upd_in[1].distribution)>>)
  /\ [][\A r \in 1..Len(learning_curve) :
          learning_curve[r] # BlankRow =>
            (r \in DOMAIN learning_curve' /\ learning_curve'[r] = learning_curve[r])]_vars

C14_Witness ==
  /\ pc = "done"
  /\ n_updates = 2
  /\ save_directory = "out"
  /\ upd_out # <<>>
  /\ learning_curve[1][3] = <<Exploration(InitialDistribution)>>
  /\ learning_curve[2][3] = <<Exploration(upd_in[1].distribution)>>
  /\ learning_curve[2][3] # <<Exploration(upd_out[1])>>
  /\ learning_curve[2][3] # learning_curve[1][3]

\* C16: what the updater is given belongs to one update: the distribution is
\* the current one, whose mean was probed and from which the samples were
\* drawn in this update, and it has not changed in between; the samples have
\* n_samples_per_update rows, the costs as many entries, and costs[k] is the
\* cost of row k of these samples, evaluated in this update.
C16_UpdaterInputsOfOneUpdate ==
  /\ [](pc \in {"book", "assign"} =>
          /\ upd_in # <<>>
          /\ upd_in[1].i_update = i_update
          /\ upd_in[1].distribution = distribution
          /\ probe.n = 1
          /\ probe.arg = <<upd_in[1].distribution.mean>>
          /\ draws = 1
          /\ upd_in[1].samples \in SampleMatrices(upd_in[1].distribution, n_samples_per_update)
          /\ Len(upd_in[1].samples) = n_samples_per_update
          /\ Len(upd_in[1].costs) = n_samples_per_update
          /\ Len(trials) = n_samples_per_update
          /\ \A k \in 1..n_samples_per_update :
               /\ upd_in[1].costs[k] = <<CostFn(upd_in[1].samples[k])>>
               /\ trials[k].arg = upd_in[1].samples[k]
               /\ trials[k].val = upd_in[1].costs[k])
  /\ [][(pc \in {"sample", "eval"}) => (distribution' = distribution)]_vars

C16_Witness ==
  /\ pc = "book"
  /\ i_update = 1
  /\ n_samples_per_update = 2
  /\ upd_in[1].i_update = 1
  /\ upd_in[1].distribution = distribution
  /\ distribution # InitialDistribution
  /\ upd_in[1].costs = << <<CostFn(samples[1])>>, <<CostFn(samples[2])>> >>
  /\ samples[1] # samples[2]

\* the contents of a file holding the one number x
OneNumber(x) == << <<x>> >>

\* C17: with full persistence the checkpoint of update i is made after the
\* updater call and before the assignment: a checkpoint that was written
\* holds the distribution given to the updater as distribution_* and the
\* distribution about to become current (the updater's output) as
\* distribution_new_*; so the distribution_new_* files of update i and the
\* distribution_* files of update i+1 hold the same values.
C17_CheckpointBetweenUpdateAndAssignment ==
  /\ (FullDump /\ pc \in {"probe", "sample", "eval", "book"}) => n_save = i_update
  /\ (FullDump /\ pc = "assign") =>
       /\ n_save = i_update + 1
       /\ save_call[1].i_update = i_update
       /\ distribution = upd_in[1].distribution
       /\ upd_out # <<>> => distribution_new = upd_out[1]
       /\ save_call[1].ret = "true" =>
            /\ fs.files[UpdateFile(save_directory, i_update, "distribution_mean.txt")]
                 = OneNumber(upd_in[1].distribution.mean)
            /\ fs.files[UpdateFile(save_directory, i_update, "distribution_covar.txt")]
                 = OneNumber(upd_in[1].distribution.covar)
            /\ fs.files[UpdateFile(save_directory, i_update, "distribution_new_mean.txt")]
                 = OneNumber(distribution_new.mean)
            /\ fs.files[UpdateFile(save_directory, i_update, "distribution_new_covar.txt")]
                 = OneNumber(distribution_new.covar)
  /\ (/\ save_prev # <<>>
      /\ save_prev[1].ret = "true"
      /\ save_call[1].ret = "true") =>
       /\ save_call[1].i_update = save_prev[1].i_update + 1
       /\ fs.files[UpdateFile(save_directory, save_prev[1].i_update, "distribution_new_mean.txt")]
            = fs.files[UpdateFile(save_directory, save_call[1].i_update, "distribution_mean.txt")]
       /\ fs.files[UpdateFile(save_directory, save_prev[1].i_update, "distribution_new_covar.txt")]
            = fs.files[UpdateFile(save_directory, save_call[1].i_update, "distribution_covar.txt")]

C17_Witness ==
  /\ pc = "assign"
  /\ i_update = 1
  /\ FullDump
  /\ save_prev # <<>>
  /\ save_prev[1].ret = "true"
  /\ save_call[1].ret = "true"
  /\ upd_out # <<>>
  /\ distribution_new # distribution
  /\ distribution # InitialDistribution
  /\ fs.files[UpdateFile(save_directory, 0, "distribution_new_covar.txt")]
       = fs.files[UpdateFile(save_directory, 1, "distribution_covar.txt")]
  /\ fs.files[UpdateFile(save_directory, 1, "distribution_new_covar.txt")]
       # fs.files[UpdateFile(save_directory, 1, "distribution_covar.txt")]

\* what the calls of the evaluator, the sampler and the updater and the
\* assignment of the loop read and write
compute_vars == <<i_update, i_sample, cost_eval, samples, costs, weights, distribution,
                  distribution_new, n_evaluate, probe, trials, draws, upd_in, upd_out>>

\* C18: without a save directory no step of a run creates a directory or
\* writes a file; with a save directory and only_learning_curve no step
\* makes a checkpoint call, creates any directory but the save directory or
\* changes any file but learning_curve.txt; and the two steps that look at the
\* persistence mode (the bookkeeping and the final write) go on the same way
\* in every mode and change nothing the evaluator, sampler and updater calls
\* and the current distribution depend on.
C18_ModeBoundsWrites ==
  [][/\ (save_directory = "") =>
          (fs' = fs /\ n_save' = n_save /\ lc_writes' = lc_writes)
     /\ (save_directory # "" /\ only_learning_curve) =>
          /\ n_save' = n_save
          /\ fs'.dirs \subseteq (fs.dirs \cup {save_directory})
          /\ DOMAIN fs'.files \subseteq (DOMAIN fs.files \cup {LearningCurveFile})
          /\ \A path \in DOMAIN fs.files :
               /\ path \in DOMAIN fs'.files
               /\ path # LearningCurveFile => fs'.files[path] = fs.files[path]
     /\ (pc = "book") => (pc' = "assign" /\ UNCHANGED compute_vars)
     /\ (pc = "probe" /\ pc' = "done") => UNCHANGED compute_vars]_vars

C18_Witness ==
  /\ pc = "done"
  /\ n_updates = 2
  /\ n_samples_per_update = 2
  /\ save_directory = "out"
  /\ only_learning_curve
  /\ fs.dirs = {"out"}
  /\ DOMAIN fs.files = {LearningCurveFile}
  /\ n_save = 0
  /\ n_evaluate = 6
  /\ upd_out # <<>>
  /\ distribution = upd_out[1]

----------------------------------------------------------------------------
(* Properties of saveToDirectory called twice, checked under SpecSave *)

SameTarget(c1, c2) == c1.directory = c2.directory /\ c1.i_update = c2.i_update

\* C9 as stated: a second call with the same directory and i_update and
\* overwrite = false fails (read generously: it does not return true), here
\* even after a first call that returned true.
C9_Original ==
  (/\ n_save = 2
   /\ save_prev[1].ret = "true"
   /\ SameTarget(save_prev[1], save_call[1])
   /\ ~save_call[1].overwrite)
    => save_call[1].ret # "true"

\* C9 as amended: a second call with overwrite = false leaves every existing
\* file as it was; and it returns false when it has the same directory,
\* i_update and numbers of distributions as a first call that wrote a file.
C9_SecondCallKeepsFiles ==
  [][ (n_save = 1 /\ n_save' = 2 /\ ~save_call'[1].overwrite) =>
        /\ \A path \in DOMAIN fs.files :
             path \in DOMAIN fs'.files /\ fs'.files[path] = fs.files[path]
        /\ (/\ SameTarget(save_call[1], save_call'[1])
            /\ save_call[1].n_dists = save_call'[1].n_dists
            /\ save_call[1].n_new = save_call'[1].n_new
            /\ save_call[1].written # <<>>)
             => save_call'[1].ret = "false" ]_vars

C9_Witness ==
  /\ n_save = 2
  /\ save_prev[1].ret = "true"
  /\ SameTarget(save_prev[1], save_call[1])
  /\ save_prev[1].n_dists = save_call[1].n_dists
  /\ save_prev[1].n_new = save_call[1].n_new
  /\ save_prev[1].n_dists = 1
  /\ ~save_call[1].overwrite
  /\ save_call[1].ret = "false"
  /\ save_call[1].written = <<>>

\* ---- the layout of an update directory, written out name by name

SetOf(seq) == {seq[j] : j \in 1..Len(seq)}

\* the three digits of dd, for dd < 10
Name3(dd) == "00" \o Digit[dd + 1]

\* the mean and covar names of distributions 0 .. n-1, in order
PairNames(prefix, n) ==
  [j \in 1..(2 * n) |->
     prefix \o Name3((j - 1) \div 2) \o (IF j % 2 = 1 THEN "_mean.txt" ELSE "_covar.txt")]

CurrentNames(n) ==
  IF n = 1 THEN <<"distribution_mean.txt", "distribution_covar.txt">>
  ELSE <<"n_parallel.txt">> \o PairNames("/distribution_", n)

NewNames(n) ==
  IF n = 1 THEN <<"distribution_new_mean.txt", "distribution_new_covar.txt">>
  ELSE PairNames("/distribution_new_", n)

OptionalNames == {"cost_eval.txt", "samples.txt", "costs.txt", "weights.txt"}

\* C11: the layout depends on the number of distributions alone.  A call
\* writes no distribution file outside the layout of its count; a call that
\* returns true has written the whole layout: for one distribution the four
\* single names and no n_parallel.txt, for any other count N n_parallel.txt
\* holding N and the zero-padded pairs 0 .. N-1, current and new.
C11_LayoutFromCount ==
  save_call # <<>> =>
    LET c == save_call[1]
        layout == SetOf(CurrentNames(c.n_dists)) \cup SetOf(NewNames(c.n_dists))
    IN /\ (SetOf(c.written) \ OptionalNames) \subseteq layout
       /\ c.ret = "true" =>
            /\ SetOf(c.written) \ OptionalNames = layout
            /\ \A name \in layout :
                 UpdateFile(c.directory, c.i_update, name) \in DOMAIN fs.files
            /\ c.n_dists # 1 =>
                 fs.files[UpdateFile(c.directory, c.i_update, "n_parallel.txt")]
                   = << <<c.n_dists>> >>
            /\ c.n_dists = 1 => ~InSeq("n_parallel.txt", c.written)

C11_Witness ==
  /\ save_call # <<>>
  /\ save_call[1].n_dists = 2
  /\ save_call[1].ret = "true"
  /\ InSeq("n_parallel.txt", save_call[1].written)
  /\ InSeq("/distribution_001_mean.txt", save_call[1].written)
  /\ InSeq("/distribution_new_001_covar.txt", save_call[1].written)
  /\ save_prev # <<>>
  /\ save_prev[1].n_dists = 1
  /\ save_prev[1].ret = "true"
  /\ InSeq("distribution_new_mean.txt", save_prev[1].written)

\* what a direct caller passes for an optional field
GivenName(name) ==
  CASE name = "cost_eval.txt" -> given.cost_eval
    [] name = "samples.txt" -> given.samples
    [] name = "costs.txt" -> given.costs
    [] name = "weights.txt" -> given.weights

\* C12: an optional field is written only if it is present, and a call that
\* returns true has written exactly the present ones, each with the value
\* passed; an absent field is never the file a call fails at; the
\* distribution files are written whether the fields are present or not.
C12_OptionalIffPresent ==
  save_call # <<>> =>
    LET c == save_call[1]
    IN /\ \A name \in OptionalNames :
            /\ InSeq(name, c.written) => GivenName(name)
            /\ (c.ret = "true" /\ GivenName(name)) => InSeq(name, c.written)
            /\ c.failed = <<name>> => GivenName(name)
       /\ (c.ret = "true" /\ given.cost_eval) =>
            fs.files[UpdateFile(c.directory, c.i_update, "cost_eval.txt")] = <<c.cost_eval>>
       /\ c.ret = "true" =>
            SetOf(CurrentNames(c.n_dists)) \cup SetOf(NewNames(c.n_dists))
              \subseteq SetOf(c.written)

C12_Witness ==
  /\ save_call # <<>>
  /\ save_call[1].ret = "true"
  /\ given.cost_eval /\ ~given.samples /\ given.costs /\ ~given.weights
  /\ InSeq("cost_eval.txt", save_call[1].written)
  /\ InSeq("costs.txt", save_call[1].written)
  /\ ~InSeq("samples.txt", save_call[1].written)
  /\ ~InSeq("weights.txt", save_call[1].written)
  /\ InSeq("distribution_new_covar.txt", save_call[1].written)

IsPrefix(p, q) == Len(p) <= Len(q) /\ \A j \in 1..Len(p) : p[j] = q[j]

\* the files a call writes when nothing fails, in the order of the writes
WriteOrder(n) ==
  CurrentNames(n)
  \o SelectSeq(<<"cost_eval.txt", "samples.txt", "costs.txt", "weights.txt">>, GivenName)
  \o NewNames(n)

\* C19: a call returns true exactly when both directories are there and every
\* write of the fixed order (current distributions, cost_eval, samples, costs,
\* weights, new distributions) was made; a call that returns false has
\* reported it, has made the writes before the failing one and none after
\* it; when a directory cannot be made the call returns false and no file is
\* written.  No file changes in a call but those the call wrote.
C19_FalseAtFirstFailure ==
  /\ [](save_call # <<>> =>
          LET c == save_call[1]
          IN /\ c.ret = "true" <=>
                  /\ c.failed = <<>>
                  /\ DirUpdate(c.directory, c.i_update) \in fs.dirs
                  /\ c.written = WriteOrder(c.n_dists)
             /\ c.ret = "true" =>
                  (c.directory \in fs.dirs /\
                   \A name \in SetOf(c.written) :
                     UpdateFile(c.directory, c.i_update, name) \in DOMAIN fs.files)
             /\ c.ret = "false" =>
                  /\ c.msgs >= 1
                  /\ IsPrefix(c.written \o c.failed, WriteOrder(c.n_dists))
                  /\ c.failed = <<>> <=> DirUpdate(c.directory, c.i_update) \notin fs.dirs
                  /\ c.failed = <<>> => c.written = <<>>)
  /\ [][(n_save' = n_save + 1) =>
          /\ \A path \in DOMAIN fs.files : path \in DOMAIN fs'.files
          /\ \A path \in DOMAIN fs'.files :
               (path \notin DOMAIN fs.files \/ fs'.files[path] # fs.files[path]) =>
                 \E name \in SetOf(save_call'[1].written) :
                   path = UpdateFile(save_call'[1].directory, save_call'[1].i_update, name)
          /\ (DirUpdate(save_call'[1].directory, save_call'[1].i_update) \notin fs'.dirs) =>
               (fs'.files = fs.files /\ save_call'[1].ret = "false")]_vars

C19_Witness ==
  /\ save_call # <<>>
  /\ save_call[1].ret = "false"
  /\ save_call[1].n_dists = 2
  /\ save_call[1].failed = <<"costs.txt">>
  /\ InSeq("/distribution_001_covar.txt", save_call[1].written)
  /\ UpdateFile("out", save_call[1].i_update, "/distribution_new_000_mean.txt")
       \notin DOMAIN fs.files
  /\ save_prev # <<>>
  /\ save_prev[1].ret = "true"
  /\ save_prev[1].written = WriteOrder(save_prev[1].n_dists)

\* every name a new-distribution file, and a current-distribution file, can have
AllNewNames == UNION {SetOf(NewNames(n)) : n \in 0..(MaxParallel + 1)}
AllCurrentNames ==
  UNION {SetOf(CurrentNames(n)) : n \in 0..(MaxParallel + 1)} \ {"n_parallel.txt"}

\* C20 as stated: the sizes are compared before any effect, so a call with
\* different numbers of current and new distributions (here the first call,
\* on an empty file system, in a build with assertions) creates no directory
\* and writes no file.
C20_Original ==
  (/\ n_save = 1
   /\ ~ndebug
   /\ save_call[1].n_dists # save_call[1].n_new)
    => fs = EmptyFs

\* C20 as amended: in a build with assertions the sizes are compared after
\* the two directories have been made and before any file is written: a call
\* with different sizes writes no file and does not return true (it dies at
\* the assertion once the update directory is there); a call that returns
\* true has written as many new-distribution files as current-distribution
\* files.
C20_SizesAssertedBeforeFiles ==
  /\ [](save_call # <<>> =>
          LET c == save_call[1]
          IN /\ (~ndebug /\ c.n_dists # c.n_new) =>
                  /\ c.written = <<>>
                  /\ c.ret # "true"
                  /\ c.ret = "abort" <=> DirUpdate(c.directory, c.i_update) \in fs.dirs
             /\ c.ret = "true" =>
                  /\ ndebug \/ c.n_dists = c.n_new
                  /\ Cardinality(SetOf(c.written) \cap AllNewNames) = 2 * c.n_dists
                  /\ Cardinality(SetOf(c.written) \cap AllCurrentNames) = 2 * c.n_dists)
  /\ [][(n_save' = n_save + 1 /\ ~ndebug /\ save_call'[1].n_dists # save_call'[1].n_new)
          => fs'.files = fs.files]_vars

C20_Witness ==
  /\ n_save = 1
  /\ ~ndebug
  /\ save_call[1].n_dists = 2
  /\ save_call[1].n_new = 1
  /\ save_call[1].ret = "abort"
  /\ fs.dirs = {"out", DirUpdate("out", 0)}
  /\ DOMAIN fs.files = {}

----------------------------------------------------------------------------
(* Properties of performRollouts, checked under SpecRollouts *)

\* the parameters of trial j: row j of every distribution's matrix, in order
TrialParameters(j) == [dd \in 1..Len(roll_samples) |-> roll_samples[dd][j]]

\* the setModelParametersVectors calls made for the trials before k
TrialsSet == IF pc = "roll_run" THEN roll_k + 1 ELSE roll_k

\* C15: performRollouts asserts that there is at least one distribution, as
\* many as the Dmp has dimensions, and that all sample matrices have the same
\* number of rows: with assertions on, a call that breaks this sets nothing
\* on the Dmp and fills no row.  In a call that meets it, n_samples is that
\* number of rows, the parameters set on the Dmp for trial k are row k of
\* every matrix in distribution order, one call per trial in order, and row
\* k of cost_vars is the trajectory of the Dmp holding exactly those.
C15_RowAlignedTrials ==
  /\ (~ndebug /\ ~RolloutAssertionsHold) =>
       /\ pc \in {"rollouts", "aborted"}
       /\ set_calls = <<>>
       /\ cost_vars = <<>>
  /\ (RolloutAssertionsHold /\ pc # "rollouts") =>
       /\ pc # "aborted"
       /\ n_samples = Len(roll_samples[1])
       /\ Len(cost_vars) = n_samples
       /\ Len(set_calls) = TrialsSet
       /\ \A j \in 1..Len(set_calls) : set_calls[j] = TrialParameters(j)
       /\ \A j \in 1..n_samples :
            cost_vars[j] = IF j <= roll_k THEN CostVarsRow(TrialParameters(j)) ELSE <<>>
       /\ pc = "roll_run" => dmp_parameters = <<TrialParameters(roll_k + 1)>>
       /\ pc = "done" => roll_k = n_samples

C15_Witness ==
  /\ pc = "done"
  /\ Len(roll_samples) = 2
  /\ n_samples = 2
  /\ set_calls = << <<roll_samples[1][1], roll_samples[2][1]>>,
                    <<roll_samples[1][2], roll_samples[2][2]>> >>
  /\ cost_vars[2] = CostVarsRow(<<roll_samples[1][2], roll_samples[2][2]>>)
  /\ cost_vars[1] # cost_vars[2]

----------------------------------------------------------------------------
(* The passes of the optimization loop *)

\* one step of a pass: where the run goes from each place of the loop, and
\* which steps change the loop counter
PassStep ==
  /\ (pc = "probe" /\ pc' # "probe") =>
        /\ pc' = IF i_update < n_updates THEN "sample" ELSE "done"
        /\ pc' = "sample" => probe'.n = 1
  /\ pc = "sample" => (pc' = "eval" /\ draws' = 1)
  /\ (pc = "eval" /\ pc' # "eval") =>
        /\ pc' = "book"
        /\ Len(trials) = n_samples_per_update
        /\ upd_in' = <<UpdateInputs>>
  /\ pc = "book" => pc' = "assign"
  /\ pc = "assign" => (pc' = "probe" /\ i_update' = i_update + 1)
  /\ pc # "assign" => i_update' = i_update

\* the calls n passes make
PassesMade(n) ==
  /\ i_update = n
  /\ n_evaluate = n * (1 + n_samples_per_update)
  /\ n > 0 => (upd_in # <<>> /\ upd_in[1].i_update = n - 1)
  /\ n_save = IF FullDump THEN n ELSE 0

\* C21: when every call of the cost function, the sampler and the updater
\* returns, a run that has entered the loop makes its passes in the order
\* probe and sample, evaluate, update, bookkeeping with the checkpoint,
\* assignment; the loop counter advances by one per pass and nowhere else; the
\* run reaches the end, and it does so after exactly n_updates passes, whatever
\* the costs were and whether or not the checkpoints could be written.
C21_PassesThenDone ==
  /\ [][PassStep]_vars
  /\ [](pc = "done" => PassesMade(n_updates))
  /\ []((pc = "probe" /\ i_update = 0) => <>(pc = "done"))

\* a finished run of two or more passes whose last checkpoint failed, whose
\* last probe cost nothing and whose trials did not all cost the same
C21_Witness ==
  /\ pc = "done"
  /\ n_updates >= 2
  /\ n_samples_per_update >= 2
  /\ PassesMade(n_updates)
  /\ cost_eval = <<0>>
  /\ costs[1] # costs[2]
  /\ save_call # <<>> /\ save_call[1].ret = "false"
  /\ save_prev # <<>> /\ save_prev[1].ret = "true"

====
